---- MODULE Spec2Model ----
(***************************************************************************)
(* Model of the task-to-backend selection and orchestration policy of      *)
(* gh-bot, as the repository expresses it in tests/test_ai_model_selection *)
(* .py (simulate_model_selection) and tests/test_orchestrator.py (the      *)
(* fallback, language-detection, schema and cache simulations).            *)
(***************************************************************************)
EXTENDS Integers, Sequences, FiniteSets, TLC

VARIABLES
    task,        \* task type of the request under evaluation
    inputs,      \* signal mapping of the request (a key may be absent)
    result,      \* dict returned by simulate_model_selection, or NoResult
    pc,          \* position of the caller: "request" -> "selected"
    scenario,    \* fallback scenario: has_openai_key, openai_error
    ctrl,        \* state of the execution fallback controller
    invoked,     \* backend invocations of the controller, in order
    served,      \* the attempt that served the request, once Success
    causes,      \* failure causes collected by the controller
    cache_test,  \* entry of the cache_tests table: request1, request2, delay
    result1,     \* first answer of _simulate_cached_request
    result2,     \* second answer of _simulate_cached_request
    cache_used,  \* answer of _was_cache_used
    suite_pc,    \* position of test_caching_mechanism: "run" -> "done"
    clock,       \* decision cache: current time, in seconds
    entries,     \* decision cache: entry of each key, << >> when absent
    inflight,    \* decision cache: computation in flight for each key, or 0
    req,         \* decision cache: the concurrent requests
    computeLog,  \* decision cache: invocations of the compute function
    content,     \* text given to language detection: << >> absent, << text >>
    detection,   \* answer of _simulate_language_detection
    lang_pc,     \* position of the detection caller: "text" -> "detected"
    response,    \* orchestrator response given to the schema validator
    is_valid,    \* answer of _validate_json_schema
    schema_pc,   \* position of the schema test: "response" -> "validated"
    test_case,   \* scenario suite: the TestCase of the loop
    selected_model,  \* scenario suite: answer of _simulate_model_selection
    outcome,     \* scenario suite: the TestResult logged for the case
    orch_pc,     \* position of the scenario loop: "case" -> "logged"
    git_pc,      \* refactor.py: position of main and of run_git_workflow
    commands,    \* refactor.py: the subprocess runs, in order, with results
    printed,     \* refactor.py: the messages given to print_status
    exit_code    \* refactor.py: exit status of the script, None while running

selVars == <<task, inputs, result, pc>>

ctrlVars == <<scenario, ctrl, invoked, served, causes>>

suiteVars == <<cache_test, result1, result2, cache_used, suite_pc>>

cacheVars == <<clock, entries, inflight, req, computeLog>>

langVars == <<content, detection, lang_pc>>

schemaVars == <<response, is_valid, schema_pc>>

orchVars == <<test_case, selected_model, outcome, orch_pc>>

gitVars == <<git_pc, commands, printed, exit_code>>

toolVars == <<schemaVars, orchVars, gitVars>>

vars == <<selVars, ctrlVars, suiteVars, cacheVars, langVars, toolVars>>

----------------------------------------------------------------------------
(* Bounds of the explored input space.                                     *)

\* numeric signals are explored within Margin of 0 and of each threshold
Margin == 1

\* number of concurrent requests to the decision cache
NReq == 3

\* the clock of the decision cache stops here
MaxClock == 602

\* a text given to language detection is made of at most MaxWords words
MaxWords == 3

\* a response given to the schema validator differs from a response of
\* test_responses by at most MaxEdits changes
MaxEdits == 1

\* a description given to the scenario suite is made of at most MaxPhrases
\* phrases
MaxPhrases == 2

----------------------------------------------------------------------------
(* Backend catalog: AIModelSelectionTest.setUp, self.models.               *)

models ==
    [ DEFAULT          |-> "@cf/qwen/qwen2.5-coder-32b-instruct",
      QWEN_CODER_32B   |-> "@cf/qwen/qwen2.5-coder-32b-instruct",
      DEEPSEEK_R1_32B  |-> "@cf/deepseek-ai/deepseek-r1-distill-qwen-32b",
      LLAMA4_SCOUT_17B |-> "@cf/meta/llama-4-scout-17b-16e-instruct",
      LLAMA32_3B       |-> "@cf/meta/llama-3.2-3b-instruct",
      MISTRAL_7B_V01   |-> "@cf/mistral/mistral-7b-instruct-v0.1",
      GPT_OSS_120B     |-> "@cf/openai/gpt-oss-120b" ]

\* self.models.values()
models_values == { models[k] : k \in DOMAIN models }

\* Python's None (the initial value of fallback)
None == "None"

\* Policy constants of simulate_model_selection
SMALL_PR_LINES == 300

LARGE_PR_FILES == 5

\* the async-queue set with llama-3.2-3b in the place of llama-3.3-70b
ASYNC_QUEUE_MODELS_3b ==
    { "@cf/meta/llama-4-scout-17b-16e-instruct",
      "@cf/openai/gpt-oss-120b",
      "@cf/meta/llama-3.2-3b-instruct" }

ASYNC_QUEUE_MODELS ==
    { "@cf/meta/llama-4-scout-17b-16e-instruct",
      "@cf/openai/gpt-oss-120b",
      "@cf/meta/llama-3.3-70b-instruct-fp8-fast" }

VERY_LONG_CTX_MODELS ==
    << "@cf/meta/llama-4-scout-17b-16e-instruct",
       "@cf/openai/gpt-oss-120b",
       "@cf/meta/llama-3.2-3b-instruct" >>

\* the budget list with the reasoning backend counted as high-cost
HIGH_COST_MODELS_reasoning ==
    { models.LLAMA4_SCOUT_17B, models.GPT_OSS_120B, models.DEEPSEEK_R1_32B }

\* the list tested by the budget nudge: [LLAMA4_SCOUT_17B, GPT_OSS_120B]
HIGH_COST_MODELS == { models.LLAMA4_SCOUT_17B, models.GPT_OSS_120B }

----------------------------------------------------------------------------
(* Requests.  A signal is an optional value: <<>> when the key is absent   *)
(* from the inputs dict, <<v>> when it is present with value v.            *)

Opt(S) == { <<>> } \cup { <<v>> : v \in S }

\* dict.get(key, default)
Get(opt, default) == IF opt = <<>> THEN default ELSE opt[1]

\* task types: the closed set of the policy and one unrecognized value
KnownTasks ==
    { "triage_many_prs", "review_pr", "deep_audit", "repo_summarize",
      "fallback_general" }

Tasks == KnownTasks \cup { "unknown_task" }

\* values the suites use for the numeric signals
SuiteDiffLines == { -100, 150, 1000000 }

SuiteFiles == { -5, 12 }

DiffLines ==
    (-Margin .. Margin)
        \cup ((SMALL_PR_LINES - Margin) .. (SMALL_PR_LINES + Margin))
        \cup SuiteDiffLines

Files ==
    (-Margin .. Margin)
        \cup ((LARGE_PR_FILES - Margin) .. (LARGE_PR_FILES + Margin))
        \cup SuiteFiles

Inputs ==
    [ diffLinesChanged      : Opt(DiffLines),
      filesChanged          : Opt(Files),
      hasDesignDocsOrImages : Opt(BOOLEAN),
      needsVeryLongContext  : Opt(BOOLEAN),
      needReasoningDepth    : Opt(BOOLEAN),
      budgetSensitive       : Opt(BOOLEAN),
      lowLatencyPreferred   : Opt(BOOLEAN) ]

----------------------------------------------------------------------------
(* simulate_model_selection, step by step.                                 *)

\* extraction of the inputs, with the defaults of inputs.get
diff_lines(in) == Get(in.diffLinesChanged, 0)

files_changed(in) == Get(in.filesChanged, 0)

has_images(in) == Get(in.hasDesignDocsOrImages, FALSE)

needs_long_context(in) == Get(in.needsVeryLongContext, FALSE)

needs_reasoning(in) == Get(in.needReasoningDepth, FALSE)

budget_sensitive(in) == Get(in.budgetSensitive, FALSE)

low_latency(in) == Get(in.lowLatencyPreferred, FALSE)

\* small_pr with the lower limit tested as truthiness of diff_lines
small_pr_truthy(in) == diff_lines(in) /= 0 /\ diff_lines(in) < SMALL_PR_LINES

\* small_pr with the lower limit off by one
small_pr_offbyone(in) == diff_lines(in) > 1 /\ diff_lines(in) < SMALL_PR_LINES

small_pr(in) == diff_lines(in) > 0 /\ diff_lines(in) < SMALL_PR_LINES

\* large_or_multi without the test of small_pr
large_or_multi_anysize(in) ==
    \/ diff_lines(in) >= SMALL_PR_LINES
    \/ files_changed(in) >= LARGE_PR_FILES
    \/ has_images(in)
    \/ needs_long_context(in)

large_or_multi(in) ==
    \/ ( ~small_pr(in)
         /\ ( diff_lines(in) >= SMALL_PR_LINES
              \/ files_changed(in) >= LARGE_PR_FILES ) )
    \/ has_images(in)
    \/ needs_long_context(in)

\* the first review_pr condition without the long-context flag
review_long_cond_sizeonly(in) ==
    \/ ( ~small_pr(in)
         /\ ( diff_lines(in) >= SMALL_PR_LINES
              \/ files_changed(in) >= LARGE_PR_FILES ) )
    \/ has_images(in)

\* condition of the first review_pr branch
review_long_cond(in) == needs_long_context(in) \/ large_or_multi(in)

\* condition of the second review_pr branch
review_budget_cond(in) == small_pr(in) /\ budget_sensitive(in)

\* review_pr, first branch
long_context_review(in) ==
    [ primary   |-> IF needs_long_context(in) THEN VERY_LONG_CTX_MODELS[1]
                    ELSE models.LLAMA4_SCOUT_17B,
      fallback  |-> models.QWEN_CODER_32B,
      rationale |-> << "large/multi-file or long context needs" >> ]

\* review_pr, second branch
budget_small_review ==
    [ primary   |-> models.MISTRAL_7B_V01,
      fallback  |-> models.QWEN_CODER_32B,
      rationale |-> << "budget-sensitive small diff" >> ]

\* the else branch with primary and fallback exchanged
standard_review_swapped ==
    [ primary   |-> models.LLAMA4_SCOUT_17B,
      fallback  |-> models.QWEN_CODER_32B,
      rationale |-> << "standard review" >> ]

\* review_pr, else branch
standard_review ==
    [ primary   |-> models.QWEN_CODER_32B,
      fallback  |-> models.LLAMA4_SCOUT_17B,
      rationale |-> << "standard review" >> ]

\* the review_pr chain with the budget branch tested first
review_pr_branch_budgetfirst(in) ==
    IF review_budget_cond(in) THEN budget_small_review
    ELSE IF review_long_cond(in) THEN long_context_review(in)
    ELSE standard_review

review_pr_branch(in) ==
    IF review_long_cond(in) THEN long_context_review(in)
    ELSE IF review_budget_cond(in) THEN budget_small_review
    ELSE standard_review

triage_branch ==
    [ primary   |-> models.LLAMA32_3B,
      fallback  |-> models.QWEN_CODER_32B,
      rationale |-> << "batch triage: cheap first-pass" >> ]

deep_audit_branch(in) ==
    [ primary   |-> IF needs_reasoning(in) THEN models.DEEPSEEK_R1_32B
                    ELSE models.QWEN_CODER_32B,
      fallback  |-> IF needs_long_context(in) THEN VERY_LONG_CTX_MODELS[1]
                    ELSE IF needs_reasoning(in) THEN models.QWEN_CODER_32B
                    ELSE models.DEEPSEEK_R1_32B,
      rationale |-> IF needs_reasoning(in)
                    THEN << "max reasoning depth" >>
                    ELSE << "code-specialized + reasoning fallback" >> ]

repo_summarize_branch(in) ==
    [ primary   |-> IF needs_long_context(in) THEN VERY_LONG_CTX_MODELS[1]
                    ELSE models.LLAMA4_SCOUT_17B,
      fallback  |-> models.QWEN_CODER_32B,
      rationale |-> << "repo-wide synthesis"
                       \o (IF needs_long_context(in)
                           THEN " with long context" ELSE "") >> ]

fallback_general_branch(in) ==
    [ primary   |-> IF needs_long_context(in) THEN models.GPT_OSS_120B
                    ELSE models.GPT_OSS_120B,
      fallback  |-> models.QWEN_CODER_32B,
      rationale |-> << "general fallback to high-capability model" >> ]

\* no branch of the chain matches: the values assigned before the chain
unmatched_branch ==
    [ primary   |-> models.DEFAULT,
      fallback  |-> None,
      rationale |-> << >> ]

\* the if/elif chain on the task: primary, fallback and rationale list
\* before the nudges
select_branch(t, in) ==
    IF t = "triage_many_prs" THEN triage_branch
    ELSE IF t = "review_pr" THEN review_pr_branch(in)
    ELSE IF t = "deep_audit" THEN deep_audit_branch(in)
    ELSE IF t = "repo_summarize" THEN repo_summarize_branch(in)
    ELSE IF t = "fallback_general" THEN fallback_general_branch(in)
    ELSE unmatched_branch

\* the budget nudge with only gpt-oss-120b tested
budget_nudge_gptonly(d, in) ==
    IF budget_sensitive(in) /\ d.primary = models.GPT_OSS_120B
    THEN [ d EXCEPT !.primary   = models.QWEN_CODER_32B,
                    !.rationale = Append(@, "budget-sensitive adjustment") ]
    ELSE d

\* the budget nudge rewriting the fallback with the primary it demotes
budget_nudge_fallback(d, in) ==
    IF budget_sensitive(in) /\ d.primary \in HIGH_COST_MODELS
    THEN [ d EXCEPT !.primary   = models.QWEN_CODER_32B,
                    !.fallback  = d.primary,
                    !.rationale = Append(@, "budget-sensitive adjustment") ]
    ELSE d

\* budget nudge
budget_nudge(d, in) ==
    IF budget_sensitive(in) /\ d.primary \in HIGH_COST_MODELS
    THEN [ d EXCEPT !.primary   = models.QWEN_CODER_32B,
                    !.rationale = Append(@, "budget-sensitive adjustment") ]
    ELSE d

\* the latency nudge left out
latency_nudge_off(d, in) == d

\* latency nudge
latency_nudge(d, in) ==
    IF low_latency(in) /\ d.primary \in ASYNC_QUEUE_MODELS
    THEN [ d EXCEPT !.primary   = models.QWEN_CODER_32B,
                    !.rationale = Append(@, "low-latency preference") ]
    ELSE d

\* ' | '.join(rationale)
RECURSIVE join(_)
join(tokens) ==
    IF tokens = << >> THEN ""
    ELSE IF Len(tokens) = 1 THEN tokens[1]
    ELSE tokens[1] \o " | " \o join(Tail(tokens))

\* the two nudges in the other order
nudged_latency_first(t, in) ==
    budget_nudge(latency_nudge(select_branch(t, in), in), in)

\* the decision before the returned dict is built
nudged(t, in) == latency_nudge(budget_nudge(select_branch(t, in), in), in)

simulate_model_selection(t, in) ==
    LET d == nudged(t, in) IN
    [ primary    |-> d.primary,
      fallback   |-> d.fallback,
      embeddings |-> "@cf/baai/bge-m3",
      reranker   |-> "@cf/baai/bge-reranker-base",
      rationale  |-> IF d.rationale /= << >> THEN join(d.rationale)
                     ELSE "default policy" ]

----------------------------------------------------------------------------
(* OrchestratorTestSuite._simulate_openai_fallback and the execution       *)
(* fallback controller that acts on its answer.                            *)

\* the test of the error as a test of the presence of a value
truthy_any(v) == TRUE

\* truth value of a str-or-None in a Python condition
truthy(v) == v /= None /\ v /= ""

\* errors a scenario gives the preferred backend
OpenAIErrors == { None, "Rate limit exceeded", "timeout" }

Scenarios ==
    [ has_openai_key : BOOLEAN,
      openai_error   : Opt(OpenAIErrors) ]

\* the fallback decision that always answers True
simulate_openai_fallback_always(sc) == TRUE

\* the fallback decision without the test of the API key
simulate_openai_fallback_nokey(sc) ==
    IF truthy(Get(sc.openai_error, None)) THEN TRUE
    ELSE FALSE

\* True: the fallback is used; False: the preferred backend is used
simulate_openai_fallback(sc) ==
    IF ~sc.has_openai_key THEN TRUE
    ELSE IF truthy(Get(sc.openai_error, None)) THEN TRUE
    ELSE FALSE

\* outcomes of the fallback invocation
FallbackErrors == { None, "error", "timeout" }

NoAttempt == [ role |-> None, backend |-> None ]

Attempt(r, b) == [ role |-> r, backend |-> b ]

CtrlIdle ==
    /\ ctrl = "Init"
    /\ invoked = << >>
    /\ served = NoAttempt
    /\ causes = << >>

\* Init -> TryPrimary: the primary of the decision is invoked, when the
\* preferred provider is available at all
CtrlStart ==
    /\ pc = "selected"
    /\ ctrl = "Init"
    /\ ctrl' = "TryPrimary"
    /\ invoked' = IF scenario.has_openai_key
                  THEN << Attempt("primary", result.primary) >>
                  ELSE << >>
    /\ UNCHANGED <<selVars, scenario, served, causes,
                   suiteVars, cacheVars, langVars, toolVars>>

\* TryPrimary -> Success | TryFallback
PrimaryDone ==
    /\ ctrl = "TryPrimary"
    /\ IF simulate_openai_fallback(scenario)
       THEN /\ ctrl' = "TryFallback"
            /\ invoked' = Append(invoked, Attempt("fallback", result.fallback))
            /\ causes' = Append(causes,
                                IF scenario.has_openai_key
                                THEN Get(scenario.openai_error, None)
                                ELSE "no api key")
            /\ UNCHANGED served
       ELSE /\ ctrl' = "Success"
            /\ served' = Attempt("primary", result.primary)
            /\ UNCHANGED <<invoked, causes>>
    /\ UNCHANGED <<selVars, scenario, suiteVars,
                   cacheVars, langVars, toolVars>>

\* TryFallback that goes back to TryPrimary when the fallback fails
FallbackDone_retry ==
    /\ ctrl = "TryFallback"
    /\ \E err \in FallbackErrors :
          IF err = None
          THEN /\ ctrl' = "Success"
               /\ served' = Attempt("fallback", result.fallback)
          ELSE /\ ctrl' = "TryPrimary"
               /\ UNCHANGED served
    /\ UNCHANGED <<selVars, scenario, invoked, causes,
                   suiteVars, cacheVars, langVars, toolVars>>

\* TryFallback -> Success | Failed
FallbackDone ==
    /\ ctrl = "TryFallback"
    /\ \E err \in FallbackErrors :
          IF err = None
          THEN /\ ctrl' = "Success"
               /\ served' = Attempt("fallback", result.fallback)
               /\ UNCHANGED causes
          ELSE /\ ctrl' = "Failed"
               /\ causes' = Append(causes, err)
               /\ UNCHANGED served
    /\ UNCHANGED <<selVars, scenario, invoked,
                   suiteVars, cacheVars, langVars, toolVars>>

\* a cancellation handled like a failure of the call in flight
CancelAsFailure ==
    /\ ctrl \in { "TryPrimary", "TryFallback" }
    /\ causes' = Append(causes, "cancelled")
    /\ IF ctrl = "TryPrimary"
       THEN /\ ctrl' = "TryFallback"
            /\ invoked' = Append(invoked, Attempt("fallback", result.fallback))
       ELSE /\ ctrl' = "Failed"
            /\ UNCHANGED invoked
    /\ UNCHANGED <<selVars, scenario, served,
                   suiteVars, cacheVars, langVars, toolVars>>

\* the caller cancels while TryPrimary or TryFallback is in flight: the call
\* is abandoned and the outcome is Cancelled
Cancel ==
    /\ ctrl \in { "TryPrimary", "TryFallback" }
    /\ ctrl' = "Cancelled"
    /\ UNCHANGED <<selVars, scenario, invoked, served, causes,
                   suiteVars, cacheVars, langVars, toolVars>>

----------------------------------------------------------------------------
(* OrchestratorTestSuite.test_caching_mechanism and its helpers.           *)

\* "Cache TTL is 300 seconds"
CACHE_TTL == 300

SuiteRequests ==
    [ task       : Opt({ "review_pr", "deep_audit" }),
      diff_lines : Opt({ 100, 200 }) ]

CacheTests ==
    [ request1      : SuiteRequests,
      request2      : SuiteRequests,
      delay_seconds : Opt({ 0, CACHE_TTL, CACHE_TTL + 1 }) ]

NoAnswer == [ model |-> None, cached |-> FALSE, timestamp |-> 0 ]

\* the answer does not depend on the request; now is time.time()
simulate_cached_request(request, now) ==
    [ model     |-> "@cf/qwen/qwen2.5-coder-32b-instruct",
      cached    |-> TRUE,
      timestamp |-> now ]

\* "Simple cache logic - same task uses cache"
was_cache_used(request1, request2) ==
    Get(request1.task, None) = Get(request2.task, None)

SuiteIdle ==
    /\ cache_test = [ request1 |-> [ task |-> << >>, diff_lines |-> << >> ],
                      request2 |-> [ task |-> << >>, diff_lines |-> << >> ],
                      delay_seconds |-> << >> ]
    /\ result1 = NoAnswer
    /\ result2 = NoAnswer
    /\ cache_used = FALSE
    /\ suite_pc = "idle"

\* one iteration of the loop over cache_tests: both requests are simulated
\* (the delay, when given, is passed over) and the cache use is asked for
CacheTest ==
    /\ suite_pc = "run"
    /\ \E t1 \in 0 .. 1 : \E t2 \in t1 .. 1 :
          /\ result1' = simulate_cached_request(cache_test.request1, t1)
          /\ result2' = simulate_cached_request(cache_test.request2, t2)
    /\ cache_used' = was_cache_used(cache_test.request1, cache_test.request2)
    /\ suite_pc' = "done"
    /\ UNCHANGED <<cache_test, selVars, ctrlVars,
                   cacheVars, langVars, toolVars>>

----------------------------------------------------------------------------
(* Decision cache: getOrCompute with a per-key in-flight marker and        *)
(* waiters notified on completion.                                         *)

Requesters == 1 .. NReq

\* steps of the clock: up to the TTL exactly, and just past it
TickSteps == { CACHE_TTL, CACHE_TTL + 1 }

\* canonical serialization of (taskType, signals)
cache_key(t, in) == << t, in >>

NoSignals ==
    [ diffLinesChanged      |-> << >>,
      filesChanged          |-> << >>,
      hasDesignDocsOrImages |-> << >>,
      needsVeryLongContext  |-> << >>,
      needReasoningDepth    |-> << >>,
      budgetSensitive       |-> << >>,
      lowLatencyPreferred   |-> << >> ]

\* the keys requested
CacheKeys ==
    { cache_key("review_pr",
                [ NoSignals EXCEPT !.diffLinesChanged = << 150 >> ]),
      cache_key("deep_audit",
                [ NoSignals EXCEPT !.diffLinesChanged = << 150 >> ]) }

\* the value producer of the cache
compute(k) == simulate_model_selection(k[1], k[2])

NoReq ==
    [ st |-> "idle", key |-> << >>, arrived |-> 0, comp |-> 0,
      led |-> FALSE, joined |-> FALSE, got |-> << >> ]

CacheIdle ==
    /\ clock = 0
    /\ entries = [ k \in CacheKeys |-> << >> ]
    /\ inflight = [ k \in CacheKeys |-> 0 ]
    /\ req = [ r \in Requesters |-> NoReq ]
    /\ computeLog = << >>

\* an entry older than the TTL is treated as absent
fresh(k) ==
    /\ entries[k] /= << >>
    /\ clock - entries[k][1].createdAt <= CACHE_TTL

\* a lookup that finds no entry without the in-flight marker
in_flight_never(k) == FALSE

\* a computation of the key is in flight
in_flight(k) == inflight[k] /= 0

\* getOrCompute(k, compute), up to the point where the caller either has
\* the decision, awaits the computation in flight, or starts computing
GetOrCompute(r, k) ==
    /\ req[r].st = "idle"
    /\ IF fresh(k) THEN
            /\ req' = [ req EXCEPT ![r] =
                          [ NoReq EXCEPT !.st = "done", !.key = k,
                                         !.arrived = clock,
                                         !.comp = entries[k][1].comp,
                                         !.got = << entries[k][1].value >> ] ]
            /\ UNCHANGED <<entries, inflight, computeLog>>
       ELSE IF in_flight(k) THEN
            /\ req' = [ req EXCEPT ![r] =
                          [ NoReq EXCEPT !.st = "waiting", !.key = k,
                                         !.arrived = clock,
                                         !.comp = inflight[k],
                                         !.joined = TRUE ] ]
            /\ UNCHANGED <<entries, inflight, computeLog>>
       ELSE
            /\ entries' = [ entries EXCEPT ![k] = << >> ]
            /\ computeLog' = Append(computeLog, [ key |-> k, start |-> clock ])
            /\ inflight' = [ inflight EXCEPT ![k] = Len(computeLog) + 1 ]
            /\ req' = [ req EXCEPT ![r] =
                          [ NoReq EXCEPT !.st = "computing", !.key = k,
                                         !.arrived = clock,
                                         !.comp = Len(computeLog) + 1,
                                         !.led = TRUE ] ]
    /\ UNCHANGED <<clock, selVars, ctrlVars, suiteVars, langVars, toolVars>>

\* the computation of requester r completes: the entry is stored and every
\* waiter of the key is notified with the same decision
ComputeDone(r) ==
    /\ req[r].st = "computing"
    /\ LET k == req[r].key
           v == compute(k)
       IN  /\ entries' = [ entries EXCEPT ![k] =
                             << [ value |-> v, createdAt |-> clock,
                                  comp |-> req[r].comp ] >> ]
           /\ inflight' = [ inflight EXCEPT ![k] =
                              IF @ = req[r].comp THEN 0 ELSE @ ]
           /\ req' = [ q \in Requesters |->
                         IF q = r \/ ( req[q].st = "waiting"
                                       /\ req[q].comp = req[r].comp )
                         THEN [ req[q] EXCEPT !.st = "done", !.got = << v >> ]
                         ELSE req[q] ]
    /\ UNCHANGED <<clock, computeLog, selVars,
                   ctrlVars, suiteVars, langVars, toolVars>>

\* time passes
Tick(d) ==
    /\ clock + d <= MaxClock
    /\ clock' = clock + d
    /\ UNCHANGED <<entries, inflight, req, computeLog,
                   selVars, ctrlVars, suiteVars, langVars, toolVars>>

----------------------------------------------------------------------------
(* OrchestratorTestSuite._simulate_language_detection.  A text is a         *)
(* sequence of characters; a character outside ASCII is written by name.   *)
(* Confidences are in hundredths (0.85 is 85).                             *)

\* the character class of the first branch: six Chinese characters
CHINESE_CLASS == { "ni", "hao", "shi", "jie", "zhong", "wen" }

\* the character class of the second branch
SPANISH_CLASS ==
    { "a_acute", "e_acute", "i_acute", "o_acute", "u_acute", "n_tilde",
      "inverted_exclamation", "inverted_question" }

funcion == << "f", "u", "n", "c", "i", "o_acute", "n" >>

codigo == << "c", "o_acute", "d", "i", "g", "o" >>

function == << "f", "u", "n", "c", "t", "i", "o", "n" >>

\* re.search of a character class
search_class(text, class) == \E i \in DOMAIN text : text[i] \in class

\* word in text, re.search of a literal
contains(text, word) ==
    \E i \in 1 .. (Len(text) - Len(word) + 1) :
        SubSeq(text, i, i + Len(word) - 1) = word

chinese_result ==
    [ raised |-> FALSE, detected_language |-> "chinese",
      needs_translation |-> TRUE, confidence |-> 85 ]

\* the Spanish answer with a confidence of 0.72
spanish_result_unsure ==
    [ raised |-> FALSE, detected_language |-> "spanish",
      needs_translation |-> TRUE, confidence |-> 72 ]

spanish_result ==
    [ raised |-> FALSE, detected_language |-> "spanish",
      needs_translation |-> TRUE, confidence |-> 82 ]

mixed_result ==
    [ raised |-> FALSE, detected_language |-> "mixed",
      needs_translation |-> FALSE, confidence |-> 65 ]

english_result ==
    [ raised |-> FALSE, detected_language |-> "english",
      needs_translation |-> FALSE, confidence |-> 90 ]

\* re.search on None: TypeError, no answer
type_error ==
    [ raised |-> TRUE, detected_language |-> None,
      needs_translation |-> FALSE, confidence |-> 0 ]

NoDetection ==
    [ raised |-> FALSE, detected_language |-> None,
      needs_translation |-> FALSE, confidence |-> 0 ]

simulate_language_detection(c) ==
    IF c = << >> THEN type_error
    ELSE LET text == c[1] IN
        IF search_class(text, CHINESE_CLASS) THEN chinese_result
        ELSE IF \/ search_class(text, SPANISH_CLASS)
                \/ contains(text, funcion)
                \/ contains(text, codigo)
             THEN spanish_result
        ELSE IF contains(text, codigo) /\ contains(text, function)
             THEN mixed_result
        ELSE english_result

\* words the texts are made of: the words of the suite's contents that the
\* branches look at, and words they do not look at ("zhe", "shi4" are the
\* first two characters of the suite's Chinese content, outside the class)
Vocabulary ==
    { codigo, function, funcion,
      << "r", "e", "v", "i", "e", "w" >>,
      << "c", "o", "d", "i", "g", "o" >>,
      << "zhe", "shi4" >>,
      << "ni", "hao" >>,
      << "n_tilde" >>,
      << " " >> }

RECURSIVE Texts(_)
Texts(n) ==
    IF n = 0 THEN { << >> }
    ELSE Texts(n - 1)
            \cup { t \o w : t \in Texts(n - 1), w \in Vocabulary }

Contents == Opt(Texts(MaxWords))

LangIdle ==
    /\ content = << >>
    /\ detection = NoDetection
    /\ lang_pc = "idle"

\* detection_result = self._simulate_language_detection(test["content"])
Detect ==
    /\ lang_pc = "text"
    /\ detection' = simulate_language_detection(content)
    /\ lang_pc' = "detected"
    /\ UNCHANGED <<content, selVars, ctrlVars, suiteVars, cacheVars, toolVars>>

----------------------------------------------------------------------------
(* OrchestratorTestSuite._validate_json_schema and the schema of           *)
(* test_json_schema_compliance.  A value is [kind, items]: kind is the     *)
(* Python type of the value, items maps the keys of a dict to their values *)
(* (a key that is not in the dict is not in DOMAIN items).                 *)

\* Python types of the values of a decoded response
Kinds == { "str", "int", "float", "bool", "list", "dict", "NoneType" }

NoItems == [ k \in {} |-> 0 ]

leaf(kind) == [ kind |-> kind, items |-> NoItems ]

dict(items) == [ kind |-> "dict", items |-> items ]

field(type) == [ type |-> type, required |-> {}, properties |-> NoItems ]

test_schema ==
    [ type |-> "object",
      required |-> { "model", "prompt", "rationale", "translation" },
      properties |->
        [ model |->
            [ type |-> "object",
              required |-> { "primary" },
              properties |->
                [ primary    |-> field("string"),
                  fallback   |-> field("string"),
                  embeddings |-> field("string"),
                  reranker   |-> field("string") ] ],
          prompt |->
            [ type |-> "object",
              required |-> { "target_kind", "messages" },
              properties |->
                [ target_kind |-> field("string"),
                  messages    |-> field("array"),
                  max_tokens  |-> field("integer"),
                  temperature |-> field("number") ] ],
          rationale |->
            [ type |-> "object",
              required |->
                { "policy_decision", "cost_estimate", "latency_notes" },
              properties |->
                [ policy_decision |-> field("string"),
                  cost_estimate   |-> field("string"),
                  latency_notes   |-> field("string") ] ],
          translation |->
            [ type |-> "object",
              required |-> { "needs_translation", "detected_language" },
              properties |->
                [ needs_translation |-> field("boolean"),
                  detected_language |-> field("string"),
                  confidence        |-> field("number") ] ] ] ]

\* isinstance(value, type): bool is a subclass of int
isinstance(value, type) ==
    CASE type = "str"   -> value.kind = "str"
      [] type = "int"   -> value.kind \in { "int", "bool" }
      [] type = "float" -> value.kind = "float"
      [] type = "bool"  -> value.kind = "bool"
      [] type = "list"  -> value.kind = "list"
      [] type = "dict"  -> value.kind = "dict"

RECURSIVE validate_object(_, _), validate_field(_, _)

validate_object(data, schema) ==
    IF schema.type = "object" THEN
        /\ isinstance(data, "dict")
        /\ \A f \in schema.required : f \in DOMAIN data.items
        /\ \A f \in DOMAIN schema.properties :
              f \in DOMAIN data.items =>
                  validate_field(data.items[f], schema.properties[f])
    ELSE validate_field(data, schema)

validate_field(value, field_schema) ==
    LET field_type == field_schema.type IN
    IF field_type = "string" THEN isinstance(value, "str")
    ELSE IF field_type = "integer" THEN isinstance(value, "int")
    ELSE IF field_type = "number" THEN
        isinstance(value, "int") \/ isinstance(value, "float")
    ELSE IF field_type = "boolean" THEN isinstance(value, "bool")
    ELSE IF field_type = "array" THEN isinstance(value, "list")
    ELSE IF field_type = "object" THEN validate_object(value, field_schema)
    ELSE TRUE

\* no path of _validate_object raises, so the except branch is never taken
validate_json_schema(data, schema) == validate_object(data, schema)

\* test_responses[0]
valid_response ==
    dict([ model |->
             dict([ primary    |-> leaf("str"),
                    fallback   |-> leaf("str"),
                    embeddings |-> leaf("str"),
                    reranker   |-> leaf("str") ]),
           prompt |->
             dict([ target_kind |-> leaf("str"),
                    messages    |-> leaf("list"),
                    max_tokens  |-> leaf("int"),
                    temperature |-> leaf("float") ]),
           rationale |->
             dict([ policy_decision |-> leaf("str"),
                    cost_estimate   |-> leaf("str"),
                    latency_notes   |-> leaf("str") ]),
           translation |->
             dict([ needs_translation |-> leaf("bool"),
                    detected_language |-> leaf("str"),
                    confidence        |-> leaf("float") ]) ])

\* test_responses[1]
invalid_response ==
    dict([ model |-> dict([ primary |-> leaf("str") ]),
           prompt |->
             dict([ target_kind |-> leaf("str"),
                    messages    |-> leaf("list") ]),
           translation |->
             dict([ needs_translation |-> leaf("bool"),
                    detected_language |-> leaf("str") ]) ])

test_responses == { valid_response, invalid_response }

\* the keys of the schema: of the response, and of each of its objects
TopKeys == DOMAIN test_schema.properties

Paths ==
    { << >> }
        \cup { << k >> : k \in TopKeys }
        \cup UNION { { << k, f >> :
                         f \in DOMAIN test_schema.properties[k].properties } :
                     k \in TopKeys }

\* del d[k]
without(items, k) == [ x \in DOMAIN items \ { k } |-> items[x] ]

\* d[k] = v
with(items, k, v) ==
    [ x \in DOMAIN items \cup { k } |-> IF x = k THEN v ELSE items[x] ]

\* a change of a response: the value at a path is deleted ("absent") or
\* replaced by a value of another type (an empty dict for "dict")
Edits == [ path : Paths, to : Kinds \cup { "absent" } ]

edited_items(items, k, to) ==
    IF to = "absent" THEN without(items, k) ELSE with(items, k, leaf(to))

edited(r, e) ==
    IF Len(e.path) = 0 THEN
        IF e.to = "absent" THEN r ELSE leaf(e.to)
    ELSE IF r.kind /= "dict" THEN r
    ELSE IF Len(e.path) = 1 THEN
        dict(edited_items(r.items, e.path[1], e.to))
    ELSE IF e.path[1] \notin DOMAIN r.items THEN r
    ELSE IF r.items[e.path[1]].kind /= "dict" THEN r
    ELSE dict(with(r.items, e.path[1],
                   dict(edited_items(r.items[e.path[1]].items,
                                     e.path[2], e.to))))

RECURSIVE Variants(_, _)
Variants(rs, n) ==
    IF n = 0 THEN rs
    ELSE Variants(rs \cup { edited(r, e) : r \in rs, e \in Edits }, n - 1)

Responses == Variants(test_responses, MaxEdits)

NoResponse == leaf("NoneType")

SchemaIdle ==
    /\ response = NoResponse
    /\ is_valid = FALSE
    /\ schema_pc = "idle"

\* is_valid = self._validate_json_schema(response, test_schema)
Validate ==
    /\ schema_pc = "response"
    /\ is_valid' = validate_json_schema(response, test_schema)
    /\ schema_pc' = "validated"
    /\ UNCHANGED <<response, selVars, ctrlVars, suiteVars, cacheVars,
                   langVars, orchVars, gitVars>>

----------------------------------------------------------------------------
(* OrchestratorTestSuite.test_model_selection_scenarios and its helpers.  *)
(* A description is a string; an expectation that is None or empty is None *)
(* for expected_model and {} for expected_features.                        *)

\* str.lower on the letters of the descriptions
lowercase ==
    [ A |-> "a", B |-> "b", C |-> "c", D |-> "d", E |-> "e", F |-> "f",
      G |-> "g", H |-> "h", I |-> "i", J |-> "j", K |-> "k", L |-> "l",
      M |-> "m", N |-> "n", O |-> "o", P |-> "p", Q |-> "q", R |-> "r",
      S |-> "s", T |-> "t", U |-> "u", V |-> "v", W |-> "w", X |-> "x",
      Y |-> "y", Z |-> "z" ]

RECURSIVE lower(_)
lower(s) ==
    IF Len(s) = 0 THEN ""
    ELSE LET c == SubSeq(s, 1, 1) IN
         (IF c \in DOMAIN lowercase THEN lowercase[c] ELSE c)
             \o lower(SubSeq(s, 2, Len(s)))

\* _simulate_model_selection of the orchestrator suite: the model is chosen
\* from the words of the description
suite_simulate_model_selection(tc) ==
    LET t == lower(tc.description) IN
    IF contains(t, "small pr") \/ contains(t, "budget")
    THEN "@cf/qwen/qwen2.5-coder-32b-instruct"
    ELSE IF contains(t, "large pr") \/ contains(t, "synthesis")
    THEN "@cf/meta/llama-4-scout-17b-16e-instruct"
    ELSE IF contains(t, "deep audit") \/ contains(t, "security")
    THEN "@cf/deepseek-ai/deepseek-r1-distill-qwen-32b"
    ELSE IF contains(t, "batch") \/ contains(t, "triage")
    THEN "@cf/meta/llama-3.2-3b-instruct"
    ELSE "@cf/qwen/qwen2.5-coder-32b-instruct"

model_features ==
    [ m \in { "@cf/qwen/qwen2.5-coder-32b-instruct",
              "@cf/meta/llama-4-scout-17b-16e-instruct",
              "@cf/deepseek-ai/deepseek-r1-distill-qwen-32b",
              "@cf/meta/llama-3.2-3b-instruct",
              "@cf/openai/gpt-oss-120b" } |->
        CASE m = "@cf/qwen/qwen2.5-coder-32b-instruct" ->
                { "budget_optimized", "low_cost", "code_specialized" }
          [] m = "@cf/meta/llama-4-scout-17b-16e-instruct" ->
                { "long_context", "synthesis", "multimodal" }
          [] m = "@cf/deepseek-ai/deepseek-r1-distill-qwen-32b" ->
                { "reasoning", "security", "step_by_step" }
          [] m = "@cf/meta/llama-3.2-3b-instruct" ->
                { "low_latency", "synchronous", "budget_optimized" }
          [] m = "@cf/openai/gpt-oss-120b" ->
                { "long_context", "reasoning", "high_capability" } ]

\* model_features.get(model_id, [])
get_model_features(model_id) ==
    IF model_id \in DOMAIN model_features THEN model_features[model_id]
    ELSE {}

TestCase(name, description, expected_model, expected_features) ==
    [ name |-> name, description |-> description,
      expected_model |-> expected_model,
      expected_features |-> expected_features ]

test_cases ==
    { TestCase("Small PR Review",
               "Small PR with <300 lines should prefer Qwen Coder 32B",
               "@cf/qwen/qwen2.5-coder-32b-instruct", {}),
      TestCase("Large PR Review",
               "Large PR >300 lines should prefer Scout 17B",
               "@cf/meta/llama-4-scout-17b-16e-instruct", {}),
      TestCase("Deep Security Audit",
               "Deep audit with reasoning should prefer DeepSeek R1",
               "@cf/deepseek-ai/deepseek-r1-distill-qwen-32b", {}),
      TestCase("Budget-Sensitive Review",
               "Budget sensitive should avoid expensive models",
               None, { "budget_optimized", "low_cost" }),
      TestCase("Low-Latency Preference",
               "Low latency should avoid async queue models",
               None, { "low_latency", "synchronous" }),
      TestCase("Batch Triage",
               "Batch triage should use fast, cheap model",
               "@cf/meta/llama-3.2-3b-instruct", {}),
      TestCase("Repo Summarization",
               "Repo summary should use long-context model",
               None, { "long_context", "synthesis" }) }

\* phrases other descriptions are made of: the phrases the chain looks for,
\* in the spelling of the table, and phrases it does not look for
Phrases ==
    { "Small PR", "Budget", "Large PR", "synthesis", "Deep audit",
      "security", "Batch", "triage", "Repo summary", "Low latency", " " }

RECURSIVE Descriptions(_)
Descriptions(n) ==
    IF n = 0 THEN { "" }
    ELSE Descriptions(n - 1)
            \cup { d \o w : d \in Descriptions(n - 1), w \in Phrases }

\* the cases of the table, and cases with other descriptions and the
\* expectations of the table
TestCases ==
    test_cases
        \cup { TestCase("other", d, tc.expected_model, tc.expected_features) :
                 d \in Descriptions(MaxPhrases), tc \in test_cases }

NoTestCase == TestCase("", "", None, {})

OrchIdle ==
    /\ test_case = NoTestCase
    /\ selected_model = None
    /\ outcome = None
    /\ orch_pc = "idle"

\* the TestResult the loop logs for a case and the model selected for it
logged(tc, model) ==
    IF truthy(tc.expected_model) THEN
        IF model = tc.expected_model THEN "PASS" ELSE "FAIL"
    ELSE IF tc.expected_features /= {} THEN
        IF tc.expected_features \subseteq get_model_features(model)
        THEN "PASS" ELSE "FAIL"
    ELSE "PASS"

\* one iteration of the loop of test_model_selection_scenarios
RunScenario ==
    /\ orch_pc = "case"
    /\ selected_model' = suite_simulate_model_selection(test_case)
    /\ outcome' = logged(test_case, selected_model')
    /\ orch_pc' = "logged"
    /\ UNCHANGED <<test_case, selVars, ctrlVars, suiteVars, cacheVars,
                   langVars, schemaVars, gitVars>>

----------------------------------------------------------------------------
(* refactor.py: main and run_git_workflow.  A subprocess.run is recorded   *)
(* as [cmd, result]; its result is "ok", "failed" (a non-zero exit, which  *)
(* raises CalledProcessError under check=True) or "not_found" (the program *)
(* is not installed: FileNotFoundError).                                   *)

run(cmd, rc) == [ cmd |-> cmd, result |-> rc ]

GitIdle ==
    /\ git_pc = "idle"
    /\ commands = << >>
    /\ printed = << >>
    /\ exit_code = None

ToolsIdle == SchemaIdle /\ OrchIdle /\ GitIdle

\* main up to the try block: the tests of 'src' and of 'src/index.ts'
MainStart ==
    /\ git_pc = "main"
    /\ \E src_exists \in BOOLEAN, index_exists \in BOOLEAN :
          IF ~src_exists
          THEN /\ printed' = Append(printed, "'src' directory not found")
               /\ exit_code' = 1
               /\ git_pc' = "exited"
          ELSE /\ printed' = IF index_exists THEN printed
                             ELSE Append(printed, "'src/index.ts' not found")
               /\ git_pc' = "steps"
               /\ UNCHANGED exit_code
    /\ UNCHANGED <<commands, selVars, ctrlVars, suiteVars, cacheVars,
                   langVars, schemaVars, orchVars>>

\* steps 1 to 4 of main: they return, or raise an exception main catches
RefactorSteps ==
    /\ git_pc = "steps"
    /\ \E raised \in BOOLEAN :
          IF raised
          THEN /\ printed' = Append(printed, "An error occurred")
               /\ exit_code' = 1
               /\ git_pc' = "exited"
          ELSE /\ git_pc' = "rev-parse"
               /\ UNCHANGED <<printed, exit_code>>
    /\ UNCHANGED <<commands, selVars, ctrlVars, suiteVars, cacheVars,
                   langVars, schemaVars, orchVars>>

\* git rev-parse --git-dir
CheckRepository ==
    /\ git_pc = "rev-parse"
    /\ \E rc \in { "ok", "failed", "not_found" } :
          /\ commands' = Append(commands, run("rev-parse", rc))
          /\ IF rc = "ok"
             THEN /\ git_pc' = "branch"
                  /\ UNCHANGED <<printed, exit_code>>
             ELSE IF rc = "failed"
             THEN /\ printed' = Append(printed, "Not in a git repository")
                  /\ git_pc' = "summary"
                  /\ UNCHANGED exit_code
             ELSE /\ printed' = Append(printed, "An error occurred")
                  /\ exit_code' = 1
                  /\ git_pc' = "exited"
    /\ UNCHANGED <<selVars, ctrlVars, suiteVars, cacheVars,
                   langVars, schemaVars, orchVars>>

\* git branch --list, then git checkout or git checkout -b
CreateBranch ==
    /\ git_pc = "branch"
    /\ \E exists \in BOOLEAN, rc \in { "ok", "failed" } :
          /\ commands' =
                commands \o << run("branch --list", "ok"),
                               run(IF exists THEN "checkout"
                                   ELSE "checkout -b", rc) >>
          /\ IF rc = "ok"
             THEN /\ git_pc' = "add"
                  /\ printed' = IF exists
                                THEN Append(printed, "Branch already exists")
                                ELSE printed
             ELSE /\ git_pc' = "summary"
                  /\ printed' =
                        Append(IF exists
                               THEN Append(printed, "Branch already exists")
                               ELSE printed,
                               "Failed to create/switch branch")
    /\ UNCHANGED <<exit_code, selVars, ctrlVars, suiteVars, cacheVars,
                   langVars, schemaVars, orchVars>>

\* git add .
AddFiles ==
    /\ git_pc = "add"
    /\ \E rc \in { "ok", "failed" } :
          /\ commands' = Append(commands, run("add", rc))
          /\ IF rc = "ok"
             THEN /\ git_pc' = "commit"
                  /\ UNCHANGED printed
             ELSE /\ git_pc' = "summary"
                  /\ printed' = Append(printed, "Failed to add files")
    /\ UNCHANGED <<exit_code, selVars, ctrlVars, suiteVars, cacheVars,
                   langVars, schemaVars, orchVars>>

\* git commit -m; when it fails, git status --porcelain tells whether there
\* was nothing to commit
Commit ==
    /\ git_pc = "commit"
    /\ \E rc \in { "ok", "failed" }, clean \in BOOLEAN :
          IF rc = "ok"
          THEN /\ commands' = Append(commands, run("commit", "ok"))
               /\ git_pc' = "push"
               /\ UNCHANGED printed
          ELSE /\ commands' =
                     commands \o << run("commit", "failed"),
                                    run("status", "ok") >>
               /\ IF clean
                  THEN /\ printed' = Append(printed, "No changes to commit")
                       /\ git_pc' = "push"
                  ELSE /\ printed' = Append(printed, "Failed to commit")
                       /\ git_pc' = "summary"
    /\ UNCHANGED <<exit_code, selVars, ctrlVars, suiteVars, cacheVars,
                   langVars, schemaVars, orchVars>>

\* git push -u origin
Push ==
    /\ git_pc = "push"
    /\ \E rc \in { "ok", "failed" } :
          /\ commands' = Append(commands, run("push", rc))
          /\ printed' = IF rc = "ok" THEN printed
                        ELSE Append(printed, "Failed to push branch")
    /\ git_pc' = "pr"
    /\ UNCHANGED <<exit_code, selVars, ctrlVars, suiteVars, cacheVars,
                   langVars, schemaVars, orchVars>>

\* gh --version, then gh pr create
CreatePullRequest ==
    /\ git_pc = "pr"
    /\ \E version \in { "ok", "failed", "not_found" },
          rc \in { "ok", "failed" } :
          IF version = "ok"
          THEN /\ commands' = commands \o << run("gh --version", "ok"),
                                             run("pr create", rc) >>
               /\ printed' = IF rc = "ok" THEN printed
                             ELSE Append(printed, "Failed to create PR")
          ELSE /\ commands' = Append(commands, run("gh --version", version))
               /\ printed' = Append(printed,
                                    IF version = "failed"
                                    THEN "Failed to create PR"
                                    ELSE "gh CLI not found")
    /\ git_pc' = "summary"
    /\ UNCHANGED <<exit_code, selVars, ctrlVars, suiteVars, cacheVars,
                   langVars, schemaVars, orchVars>>

\* main after run_git_workflow has returned: the summary
Summary ==
    /\ git_pc = "summary"
    /\ printed' = printed \o << "Refactoring Complete!",
                                "Git branch created and pushed",
                                "Pull request ready for review" >>
    /\ exit_code' = 0
    /\ git_pc' = "exited"
    /\ UNCHANGED <<commands, selVars, ctrlVars, suiteVars, cacheVars,
                   langVars, schemaVars, orchVars>>

----------------------------------------------------------------------------
(* Specification of a caller of simulate_model_selection.                  *)

NoResult ==
    [ primary |-> None, fallback |-> None, embeddings |-> None,
      reranker |-> None, rationale |-> "" ]

NoScenario == [ has_openai_key |-> FALSE, openai_error |-> << >> ]

SelInit ==
    /\ task \in Tasks
    /\ inputs \in Inputs
    /\ result = NoResult
    /\ pc = "request"

\* result = self.simulate_model_selection(task, inputs)
Select ==
    /\ pc = "request"
    /\ result' = simulate_model_selection(task, inputs)
    /\ pc' = "selected"
    /\ UNCHANGED <<task, inputs, ctrlVars,
                   suiteVars, cacheVars, langVars, toolVars>>

Init ==
    /\ SelInit
    /\ scenario = NoScenario
    /\ CtrlIdle
    /\ SuiteIdle
    /\ CacheIdle
    /\ LangIdle
    /\ ToolsIdle

Next == Select

Spec == Init /\ [][Next]_vars

----------------------------------------------------------------------------
(* Specification of the controller: a request is selected, then executed   *)
(* under a scenario.                                                       *)

\* the requests the controller is run on
CtrlInputs ==
    [ diffLinesChanged      : Opt(SuiteDiffLines),
      filesChanged          : { << >> },
      hasDesignDocsOrImages : { << >> },
      needsVeryLongContext  : Opt(BOOLEAN),
      needReasoningDepth    : { << >> },
      budgetSensitive       : Opt(BOOLEAN),
      lowLatencyPreferred   : { << >> } ]

InitFallback ==
    /\ task \in Tasks
    /\ inputs \in CtrlInputs
    /\ result = NoResult
    /\ pc = "request"
    /\ scenario \in Scenarios
    /\ CtrlIdle
    /\ SuiteIdle
    /\ CacheIdle
    /\ LangIdle
    /\ ToolsIdle

NextFallback ==
    \/ Select
    \/ CtrlStart
    \/ PrimaryDone
    \/ FallbackDone

SpecFallback == InitFallback /\ [][NextFallback]_vars

----------------------------------------------------------------------------
(* Specification of the controller with a caller that may cancel.          *)

NextCancel ==
    \/ Select
    \/ CtrlStart
    \/ PrimaryDone
    \/ FallbackDone
    \/ Cancel

SpecCancel == InitFallback /\ [][NextCancel]_vars

\* every backend invocation returns, errors or hits its timeout: the step
\* that ends an invocation in flight is eventually taken
SpecTimeout ==
    /\ SpecCancel
    /\ WF_vars(PrimaryDone)
    /\ WF_vars(FallbackDone)

----------------------------------------------------------------------------
(* Specification of test_caching_mechanism: one entry of the table is run. *)

NoRequest ==
    /\ task = "fallback_general"
    /\ inputs = NoSignals
    /\ result = NoResult
    /\ pc = "request"
    /\ scenario = NoScenario
    /\ CtrlIdle

InitCacheSuite ==
    /\ NoRequest
    /\ CacheIdle
    /\ LangIdle
    /\ ToolsIdle
    /\ cache_test \in CacheTests
    /\ result1 = NoAnswer
    /\ result2 = NoAnswer
    /\ cache_used = FALSE
    /\ suite_pc = "run"

NextCacheSuite == CacheTest

SpecCacheSuite == InitCacheSuite /\ [][NextCacheSuite]_vars

----------------------------------------------------------------------------
(* Specification of the decision cache under NReq concurrent requests.     *)

InitCache ==
    /\ NoRequest
    /\ SuiteIdle
    /\ CacheIdle
    /\ LangIdle
    /\ ToolsIdle

NextCache ==
    \/ \E r \in Requesters : \E k \in CacheKeys : GetOrCompute(r, k)
    \/ \E r \in Requesters : ComputeDone(r)
    \/ \E d \in TickSteps : Tick(d)

SpecCache == InitCache /\ [][NextCache]_vars

----------------------------------------------------------------------------
(* Specification of a caller of _simulate_language_detection.              *)

InitLang ==
    /\ NoRequest
    /\ SuiteIdle
    /\ CacheIdle
    /\ ToolsIdle
    /\ content \in Contents
    /\ detection = NoDetection
    /\ lang_pc = "text"

NextLang == Detect

SpecLang == InitLang /\ [][NextLang]_vars

----------------------------------------------------------------------------
(* Specification of a caller of _validate_json_schema.                     *)

InitSchema ==
    /\ NoRequest
    /\ SuiteIdle
    /\ CacheIdle
    /\ LangIdle
    /\ OrchIdle
    /\ GitIdle
    /\ response \in Responses
    /\ is_valid = FALSE
    /\ schema_pc = "response"

NextSchema == Validate

SpecSchema == InitSchema /\ [][NextSchema]_vars

----------------------------------------------------------------------------
(* Specification of test_model_selection_scenarios: one case is run.       *)

InitScenarios ==
    /\ NoRequest
    /\ SuiteIdle
    /\ CacheIdle
    /\ LangIdle
    /\ SchemaIdle
    /\ GitIdle
    /\ test_case \in TestCases
    /\ selected_model = None
    /\ outcome = None
    /\ orch_pc = "case"

NextScenarios == RunScenario

SpecScenarios == InitScenarios /\ [][NextScenarios]_vars

----------------------------------------------------------------------------
(* Specification of a run of refactor.py.                                  *)

InitRefactor ==
    /\ NoRequest
    /\ SuiteIdle
    /\ CacheIdle
    /\ LangIdle
    /\ SchemaIdle
    /\ OrchIdle
    /\ git_pc = "main"
    /\ commands = << >>
    /\ printed = << >>
    /\ exit_code = None

NextRefactor ==
    \/ MainStart
    \/ RefactorSteps
    \/ CheckRepository
    \/ CreateBranch
    \/ AddFiles
    \/ Commit
    \/ Push
    \/ CreatePullRequest
    \/ Summary

SpecRefactor == InitRefactor /\ [][NextRefactor]_vars

----------------------------------------------------------------------------
(* Properties of model selection (specification Spec).                     *)

\* every boolean signal is absent or False
no_flags(in) ==
    /\ ~has_images(in)
    /\ ~needs_long_context(in)
    /\ ~needs_reasoning(in)
    /\ ~budget_sensitive(in)
    /\ ~low_latency(in)

\* C1: for every task type and signal set, the fallback of the decision
\* returned after the nudges is different from its primary.
C1_FallbackDiffersFromPrimary ==
    pc = "selected" => result.fallback /= result.primary

\* C2: a task type outside the closed set is routed exactly like
\* fallback_general: same primary (gpt-oss-120b before the nudges) and same
\* fallback (the default code-specialized backend) for the same signals.
C2_UnknownTaskRoutesAsGeneral ==
    (pc = "selected" /\ task \notin KnownTasks) =>
        /\ select_branch(task, inputs).primary = models.GPT_OSS_120B
        /\ result.primary
             = simulate_model_selection("fallback_general", inputs).primary
        /\ result.fallback
             = simulate_model_selection("fallback_general", inputs).fallback
        /\ result.fallback = models.DEFAULT

\* C3: model selection is total: every request gets a decision whose
\* primary is a backend of the catalog, whose fallback is not None and whose
\* rationale is not empty.
C3_SelectionTotal ==
    pc = "selected" =>
        /\ result.primary \in models_values
        /\ result.fallback /= None
        /\ result.rationale /= ""

\* C8 as stated: every review_pr request with needsVeryLongContext gets the
\* long-context backend as primary, whatever the other signals are.
C8_LongContextAlways ==
    (pc = "selected" /\ task = "review_pr" /\ needs_long_context(inputs)) =>
        result.primary = models.LLAMA4_SCOUT_17B

\* C8 (amended): every review_pr request with needsVeryLongContext, whatever
\* its diff size and file count, gets the long-context backend as primary
\* unless budgetSensitive or lowLatencyPreferred is set; then a nudge demotes
\* the primary to the default code-specialized backend.
C8_LongContextUnlessNudged ==
    (pc = "selected" /\ task = "review_pr" /\ needs_long_context(inputs)) =>
        result.primary =
            IF budget_sensitive(inputs) \/ low_latency(inputs)
            THEN models.QWEN_CODER_32B
            ELSE models.LLAMA4_SCOUT_17B

C8_Witness ==
    /\ pc = "selected"
    /\ task = "review_pr"
    /\ needs_long_context(inputs)
    /\ diff_lines(inputs) = 1
    /\ files_changed(inputs) = 0
    /\ ~budget_sensitive(inputs)
    /\ ~low_latency(inputs)
    /\ result.primary = models.LLAMA4_SCOUT_17B

\* C9: a review_pr request with diffLinesChanged in 1..299, filesChanged < 5
\* and no flag set gets primary = default code-specialized backend,
\* fallback = long-context backend, rationale = 'standard review'.
C9_StandardReview ==
    ( /\ pc = "selected"
      /\ task = "review_pr"
      /\ diff_lines(inputs) \in 1 .. 299
      /\ files_changed(inputs) < 5
      /\ no_flags(inputs) ) =>
        /\ result.primary = "@cf/qwen/qwen2.5-coder-32b-instruct"
        /\ result.fallback = "@cf/meta/llama-4-scout-17b-16e-instruct"
        /\ result.rationale = "standard review"

C9_Witness ==
    /\ pc = "selected"
    /\ task = "review_pr"
    /\ diff_lines(inputs) = 299
    /\ files_changed(inputs) = 4
    /\ no_flags(inputs)
    /\ result.rationale = "standard review"

\* C10: a review_pr request with diffLinesChanged in 1..299, budgetSensitive
\* set, hasDesignDocsOrImages and needsVeryLongContext unset gets the
\* low-cost backend (mistral-7b) as final primary, for any filesChanged and
\* any lowLatencyPreferred.
C10_BudgetSmallDiff ==
    ( /\ pc = "selected"
      /\ task = "review_pr"
      /\ diff_lines(inputs) \in 1 .. 299
      /\ budget_sensitive(inputs)
      /\ ~has_images(inputs)
      /\ ~needs_long_context(inputs) ) =>
        /\ result.primary = "@cf/mistral/mistral-7b-instruct-v0.1"
        /\ result.primary /= models.LLAMA4_SCOUT_17B
        /\ result.primary /= models.DEFAULT

C10_Witness ==
    /\ pc = "selected"
    /\ task = "review_pr"
    /\ diff_lines(inputs) = 1
    /\ files_changed(inputs) = 12
    /\ budget_sensitive(inputs)
    /\ low_latency(inputs)
    /\ result.primary = models.MISTRAL_7B_V01

\* C11: every deep_audit request with needReasoningDepth gets the reasoning
\* backend (deepseek-r1) as primary and a rationale containing 'max
\* reasoning depth', whatever the other signals are; no nudge applies, so
\* the rationale is exactly that token.
C11_DeepAuditReasoning ==
    (pc = "selected" /\ task = "deep_audit" /\ needs_reasoning(inputs)) =>
        /\ result.primary = "@cf/deepseek-ai/deepseek-r1-distill-qwen-32b"
        /\ result.rationale = "max reasoning depth"

C11_Witness ==
    /\ pc = "selected"
    /\ task = "deep_audit"
    /\ needs_reasoning(inputs)
    /\ budget_sensitive(inputs)
    /\ low_latency(inputs)
    /\ needs_long_context(inputs)
    /\ result.primary = models.DEEPSEEK_R1_32B

\* C12: every triage_many_prs request, for any signals, gets the batch
\* backend (llama-3.2-3b) as primary and the default code-specialized backend
\* as fallback; neither nudge changes it.
C12_TriageAlwaysBatch ==
    (pc = "selected" /\ task = "triage_many_prs") =>
        /\ result.primary = "@cf/meta/llama-3.2-3b-instruct"
        /\ result.fallback = "@cf/qwen/qwen2.5-coder-32b-instruct"
        /\ result.rationale = "batch triage: cheap first-pass"

C12_Witness ==
    /\ pc = "selected"
    /\ task = "triage_many_prs"
    /\ budget_sensitive(inputs)
    /\ low_latency(inputs)
    /\ needs_long_context(inputs)
    /\ diff_lines(inputs) = 1000000
    /\ result.primary = models.LLAMA32_3B

\* the async-queued backends named by the claim
async_queued ==
    { "@cf/meta/llama-4-scout-17b-16e-instruct",
      "@cf/openai/gpt-oss-120b",
      "@cf/meta/llama-3.3-70b-instruct-fp8-fast" }

\* C13: with lowLatencyPreferred the final primary is never an async-queued
\* backend; whenever the primary chosen by the branch is async-queued, the
\* final primary differs from it.
C13_LowLatencyAvoidsAsync ==
    (pc = "selected" /\ low_latency(inputs)) =>
        /\ result.primary \notin async_queued
        /\ select_branch(task, inputs).primary \in async_queued =>
              result.primary /= select_branch(task, inputs).primary

C13_Witness ==
    /\ pc = "selected"
    /\ task = "review_pr"
    /\ diff_lines(inputs) = 300
    /\ low_latency(inputs)
    /\ ~budget_sensitive(inputs)
    /\ select_branch(task, inputs).primary = models.LLAMA4_SCOUT_17B
    /\ result.primary = models.QWEN_CODER_32B
    /\ result.rationale
         = "large/multi-file or long context needs | low-latency preference"

\* a numeric signal that is negative or absent, replaced by 0
clamp0(opt) == IF Get(opt, 0) < 0 \/ opt = << >> THEN << 0 >> ELSE opt

clamped(in) ==
    [ in EXCEPT !.diffLinesChanged = clamp0(@),
                !.filesChanged = clamp0(@) ]

\* C14: a request whose diffLinesChanged and/or filesChanged is negative or
\* absent yields exactly the decision of the same request with those values
\* replaced by 0; review_pr with -100 lines, -5 files and no flags is the
\* 'standard review' branch.
C14_NegativeOrMissingAsZero ==
    pc = "selected" =>
        /\ result = simulate_model_selection(task, clamped(inputs))
        /\ ( /\ task = "review_pr"
             /\ inputs.diffLinesChanged = << -100 >>
             /\ inputs.filesChanged = << -5 >>
             /\ no_flags(inputs) ) =>
               /\ result.primary = models.QWEN_CODER_32B
               /\ result.fallback = models.LLAMA4_SCOUT_17B
               /\ result.rationale = "standard review"

C14_Witness ==
    /\ pc = "selected"
    /\ task = "review_pr"
    /\ inputs.diffLinesChanged = << -100 >>
    /\ inputs.filesChanged = << -5 >>
    /\ no_flags(inputs)
    /\ clamped(inputs) /= inputs
    /\ result.rationale = "standard review"


\* the backends the policy tags high-cost
high_cost == { "@cf/meta/llama-4-scout-17b-16e-instruct",
               "@cf/openai/gpt-oss-120b" }

\* the rationale of the selected branch followed by one more token
branch_and(t, in, token) ==
    join(Append(select_branch(t, in).rationale, token))

\* C23: with budgetSensitive = true the primary of the final decision is
\* never llama-4-scout or gpt-oss-120b: whenever the selected branch picked
\* one, the primary is the default code-specialized backend and
\* 'budget-sensitive adjustment' is appended to the rationale.
C23_BudgetNeverHighCost ==
    (pc = "selected" /\ inputs.budgetSensitive = << TRUE >>) =>
        /\ result.primary \notin high_cost
        /\ select_branch(task, inputs).primary \in high_cost =>
              /\ result.primary = "@cf/qwen/qwen2.5-coder-32b-instruct"
              /\ result.rationale =
                    branch_and(task, inputs, "budget-sensitive adjustment")

C23_Witness ==
    /\ pc = "selected"
    /\ task = "repo_summarize"
    /\ inputs.budgetSensitive = << TRUE >>
    /\ select_branch(task, inputs).primary =
          "@cf/meta/llama-4-scout-17b-16e-instruct"
    /\ result.primary = "@cf/qwen/qwen2.5-coder-32b-instruct"
    /\ result.rationale = "repo-wide synthesis | budget-sensitive adjustment"

\* the rationale starts with the token of the long-context review branch
starts_large_multi(r) ==
    r \in { "large/multi-file or long context needs",
            "large/multi-file or long context needs"
                \o " | budget-sensitive adjustment",
            "large/multi-file or long context needs"
                \o " | low-latency preference" }

\* C24: in review_pr the branch 'budget-sensitive small diff' with the
\* low-cost backend as primary is chosen if and only if diffLinesChanged is
\* in 1..299, budgetSensitive holds and neither hasDesignDocsOrImages nor
\* needsVeryLongContext holds; whenever one of those two flags holds the
\* rationale starts with 'large/multi-file or long context needs'.
C24_LongContextBeforeBudget ==
    (pc = "selected" /\ task = "review_pr") =>
        /\ ( /\ result.rationale = "budget-sensitive small diff"
             /\ result.primary = "@cf/mistral/mistral-7b-instruct-v0.1" )
           <=>
           ( /\ Get(inputs.diffLinesChanged, 0) \in 1 .. 299
             /\ Get(inputs.budgetSensitive, FALSE)
             /\ ~Get(inputs.hasDesignDocsOrImages, FALSE)
             /\ ~Get(inputs.needsVeryLongContext, FALSE) )
        /\ ( \/ Get(inputs.hasDesignDocsOrImages, FALSE)
             \/ Get(inputs.needsVeryLongContext, FALSE) )
           => starts_large_multi(result.rationale)

C24_Witness ==
    /\ pc = "selected"
    /\ task = "review_pr"
    /\ inputs.diffLinesChanged = << 150 >>
    /\ inputs.budgetSensitive = << TRUE >>
    /\ inputs.hasDesignDocsOrImages = << TRUE >>
    /\ inputs.needsVeryLongContext = << FALSE >>
    /\ inputs.lowLatencyPreferred = << FALSE >>
    /\ result.rationale =
          "large/multi-file or long context needs"
              \o " | budget-sensitive adjustment"

\* C25: for review_pr without the two flags the long-context branch is
\* taken if and only if diffLinesChanged >= 300, or diffLinesChanged <= 0
\* and filesChanged >= 5; a diff of 1..299 lines is never large/multi-file
\* however many files it touches.
C25_LargeOrMultiThreshold ==
    ( /\ pc = "selected"
      /\ task = "review_pr"
      /\ ~Get(inputs.hasDesignDocsOrImages, FALSE)
      /\ ~Get(inputs.needsVeryLongContext, FALSE) ) =>
        ( starts_large_multi(result.rationale)
          <=>
          ( \/ Get(inputs.diffLinesChanged, 0) >= 300
            \/ ( /\ Get(inputs.diffLinesChanged, 0) <= 0
                 /\ Get(inputs.filesChanged, 0) >= 5 ) ) )

C25_Witness ==
    /\ pc = "selected"
    /\ task = "review_pr"
    /\ inputs.diffLinesChanged = << 299 >>
    /\ inputs.filesChanged = << 12 >>
    /\ no_flags(inputs)
    /\ result.rationale = "standard review"

\* the backends the policy tags async-queued
async_queue == { "@cf/meta/llama-4-scout-17b-16e-instruct",
                 "@cf/openai/gpt-oss-120b",
                 "@cf/meta/llama-3.3-70b-instruct-fp8-fast" }

C27_NudgesChangeOnlyPrimary ==
    pc = "selected" =>
        /\ result.fallback = select_branch(task, inputs).fallback
        /\ result.embeddings = "@cf/baai/bge-m3"
        /\ result.reranker = "@cf/baai/bge-reranker-base"

C27_Witness ==
    /\ pc = "selected"
    /\ task = "review_pr"
    /\ inputs.needsVeryLongContext = << TRUE >>
    /\ inputs.budgetSensitive = << TRUE >>
    /\ result.primary /= select_branch(task, inputs).primary
    /\ result.fallback = "@cf/qwen/qwen2.5-coder-32b-instruct"
    /\ result.embeddings = "@cf/baai/bge-m3"

----------------------------------------------------------------------------
(* Properties of the execution fallback controller (SpecFallback).         *)

\* the preferred backend is unavailable or its invocation failed
preferred_failed(sc) ==
    \/ ~sc.has_openai_key
    \/ Get(sc.openai_error, None) /= None

fallback_invoked == \E i \in DOMAIN invoked : invoked[i].role = "fallback"

\* C4: the fallback backend is used if and only if the preferred backend is
\* unavailable or its invocation ends in an error or a timeout; the backend
\* then invoked is the fallback of the same decision, no third backend is
\* ever invoked, and a successful preferred backend leaves the fallback
\* uninvoked.
C4_FallbackIffPreferredFails ==
    /\ ctrl \in { "Init", "TryPrimary" } => ~fallback_invoked
    /\ ctrl \in { "TryFallback", "Success", "Failed" } =>
          (fallback_invoked <=> preferred_failed(scenario))
    /\ \A i \in DOMAIN invoked :
          /\ invoked[i].role = "fallback" =>
                invoked[i].backend = result.fallback
          /\ invoked[i].role = "primary" =>
                invoked[i].backend = result.primary
          /\ invoked[i].role \in { "primary", "fallback" }
    /\ Len(invoked) <= 2
    /\ (ctrl = "Success" /\ served.role = "primary") => ~fallback_invoked

C4_Witness ==
    /\ ctrl = "Success"
    /\ scenario.has_openai_key
    /\ scenario.openai_error = << "timeout" >>
    /\ served = Attempt("fallback", result.fallback)
    /\ invoked = << Attempt("primary", result.primary),
                    Attempt("fallback", result.fallback) >>
    /\ result.fallback /= None

primary_invoked == \E i \in DOMAIN invoked : invoked[i].role = "primary"

CtrlTransitions ==
    { << "Init", "TryPrimary" >>,
      << "TryPrimary", "Success" >>,
      << "TryPrimary", "TryFallback" >>,
      << "TryFallback", "Success" >>,
      << "TryFallback", "Failed" >> }

----------------------------------------------------------------------------
(* Properties of the controller under cancellation (SpecCancel).           *)

\* C18: a cancellation while TryPrimary or TryFallback is in flight ends in
\* Cancelled, an outcome distinct from Success and Failed (no serving backend
\* and no new failure cause is recorded); no invocation is started by or
\* after the cancellation, and the outcome stays Cancelled.
C18_CancellationIsDistinct ==
    /\ [][ ctrl' = "Cancelled" /\ ctrl /= "Cancelled" =>
              /\ ctrl \in { "TryPrimary", "TryFallback" }
              /\ invoked' = invoked
              /\ causes' = causes
              /\ served' = served ]_vars
    /\ [][ ctrl = "Cancelled" =>
              /\ ctrl' = "Cancelled"
              /\ invoked' = invoked
              /\ causes' = causes
              /\ served' = served ]_vars
    /\ [][ (ctrl' /= ctrl /\ ctrl \in { "TryPrimary", "TryFallback" }) =>
              (\A i \in DOMAIN causes' : causes'[i] /= "cancelled") ]_vars
    /\ []( ctrl = "Cancelled" =>
              /\ served = NoAttempt
              /\ Len(causes) <= 1
              /\ \A i \in DOMAIN causes : causes[i] /= "cancelled" )

C18_Witness ==
    /\ ctrl = "Cancelled"
    /\ scenario.has_openai_key
    /\ invoked = << Attempt("primary", result.primary) >>
    /\ causes = << >>


\* C29: every invocation of the controller eventually reaches a terminal
\* outcome (Success, Failed or Cancelled) after at most two backend
\* attempts; it never waits forever on a backend and never retries in a
\* loop (a terminal outcome is never left).
C29_ControllerTerminates ==
    /\ (ctrl \in { "TryPrimary", "TryFallback" })
          ~> (ctrl \in { "Success", "Failed", "Cancelled" })
    /\ [](Len(invoked) <= 2)
    /\ [][ ({ ctrl } \subseteq { "Success", "Failed", "Cancelled" }) =>
              (ctrl' = ctrl /\ invoked' = invoked) ]_vars

C29_Witness ==
    /\ ctrl = "Failed"
    /\ Len(invoked) = 2
    /\ invoked[1].role = "primary"
    /\ invoked[2].role = "fallback"
    /\ causes[2] = "timeout"

----------------------------------------------------------------------------
(* Properties of the decision cache (SpecCache).                           *)

\* computations of key k started in the TTL window that opens at time t
started_in_window(k, t) ==
    { i \in DOMAIN computeLog :
          /\ computeLog[i].key = k
          /\ computeLog[i].start \in t .. (t + CACHE_TTL) }

\* C5: when requests for the same uncached key reach the cache within the
\* TTL window that the first of them opens, the compute function is invoked
\* exactly once in that window and every one of the requests receives the
\* result of that single computation.
C5_SingleFlight ==
    /\ \A k \in CacheKeys :
          Cardinality({ r \in Requesters :
                            req[r].st = "computing" /\ req[r].key = k }) <= 1
    /\ \A r1 \in Requesters :
          req[r1].led =>
              /\ Cardinality(started_in_window(req[r1].key, req[r1].arrived)) = 1
              /\ \A r2 \in Requesters :
                    ( /\ req[r2].st /= "idle"
                      /\ req[r2].key = req[r1].key
                      /\ req[r2].arrived \in
                            req[r1].arrived .. (req[r1].arrived + CACHE_TTL) )
                    => /\ req[r2].comp = req[r1].comp
                       /\ req[r2].st = "done" =>
                             /\ req[r1].st = "done"
                             /\ req[r2].got = req[r1].got
                             /\ req[r2].got = << compute(req[r1].key) >>

C5_Witness ==
    \E r1, r2, r3 \in Requesters :
        /\ Cardinality({ r1, r2, r3 }) = 3
        /\ req[r1].led /\ req[r2].joined /\ req[r3].joined
        /\ req[r1].st = "done" /\ req[r2].st = "done" /\ req[r3].st = "done"
        /\ req[r2].key = req[r1].key /\ req[r3].key = req[r1].key
        /\ req[r2].comp = req[r1].comp /\ req[r3].comp = req[r1].comp
        /\ Len(computeLog) = 1

----------------------------------------------------------------------------
(* Properties of test_caching_mechanism (SpecCacheSuite).                  *)

\* C6: a request repeated more than 300 seconds after the first one is a
\* cache miss, even when task type and signals are identical.
C6_ExpiredEntryNotUsed ==
    (suite_pc = "done" /\ Get(cache_test.delay_seconds, 0) > 300) =>
        ~cache_used

\* C7: within the TTL the second request is served from the cache if and
\* only if its task type and its whole signal set equal those of the first.
C7_CacheKeyIsTaskAndSignals ==
    (suite_pc = "done" /\ Get(cache_test.delay_seconds, 0) <= CACHE_TTL) =>
        (cache_used <=> cache_test.request1 = cache_test.request2)


----------------------------------------------------------------------------
(* Properties of language detection (SpecLang).                            *)

\* C19: for every result of language detection, needs_translation is true
\* if and only if the detected language is not english and the confidence
\* is at least 0.75.
C19_NeedsTranslationIff ==
    (lang_pc = "detected" /\ ~detection.raised) =>
        ( detection.needs_translation <=>
            ( /\ detection.detected_language /= "english"
              /\ detection.confidence >= 75 ) )

C19_Witness ==
    /\ lang_pc = "detected"
    /\ content = << funcion \o << " " >> \o function >>
    /\ detection.detected_language = "spanish"
    /\ detection.needs_translation
    /\ detection.confidence = 82

\* C20: content that mixes English text or code with Spanish words (both
\* 'function' and 'codigo' with its accent) is classified as 'mixed', with
\* needs_translation false and a confidence below 0.75.
C20_MixedContent ==
    ( /\ lang_pc = "detected"
      /\ content /= << >>
      /\ contains(Get(content, << >>), function)
      /\ contains(Get(content, << >>), codigo)
      /\ ~search_class(Get(content, << >>), CHINESE_CLASS) ) =>
        /\ detection.detected_language = "mixed"
        /\ ~detection.needs_translation
        /\ detection.confidence < 75

\* C21: language detection on empty or absent text returns 'unknown',
\* needs_translation false and confidence 0, without failing.
C21_EmptyTextUnknown ==
    (lang_pc = "detected" /\ (content = << >> \/ content = << << >> >>)) =>
        /\ ~detection.raised
        /\ detection.detected_language = "unknown"
        /\ ~detection.needs_translation
        /\ detection.confidence = 0


----------------------------------------------------------------------------
(* Properties of the schema validator (SpecSchema).                        *)

\* the JSON type a schema declares, as a Python type of the decoded value
\* (true and false are booleans, not integers or numbers)
has_declared_type(value, type) ==
    CASE type = "string"  -> value.kind = "str"
      [] type = "integer" -> value.kind = "int"
      [] type = "number"  -> value.kind \in { "int", "float" }
      [] type = "boolean" -> value.kind = "bool"
      [] type = "array"   -> value.kind = "list"
      [] type = "object"  -> value.kind = "dict"

\* all four top-level keys and every nested required key are present
required_keys_present(r) ==
    /\ r.kind = "dict"
    /\ \A k \in test_schema.required :
          /\ k \in DOMAIN r.items
          /\ r.items[k].kind = "dict" =>
                \A f \in test_schema.properties[k].required :
                    f \in DOMAIN r.items[k].items

\* every present property has its declared type
properties_typed(r) ==
    /\ r.kind = "dict"
    /\ \A k \in TopKeys \cap DOMAIN r.items :
          /\ has_declared_type(r.items[k], test_schema.properties[k].type)
          /\ r.items[k].kind = "dict" =>
                \A f \in DOMAIN test_schema.properties[k].properties
                            \cap DOMAIN r.items[k].items :
                    has_declared_type(r.items[k].items[f],
                        test_schema.properties[k].properties[f].type)

\* C22: the validator accepts a response if and only if all four top-level
\* keys and every nested required key are present and every present
\* property has its declared type.
C22_ValidatorAcceptsIff ==
    schema_pc = "validated" =>
        (is_valid <=> (required_keys_present(response)
                        /\ properties_typed(response)))

\* the half of C22 about required keys: an accepted response misses none
C22_MissingKeyRejected ==
    (schema_pc = "validated" /\ is_valid) => required_keys_present(response)


----------------------------------------------------------------------------
(* Properties of test_model_selection_scenarios (SpecScenarios).           *)

\* C28: the suite's model selection gives every scenario of its table a
\* model that meets the scenario's expectation: the expected model id when
\* one is named, otherwise a model whose features contain all expected
\* features (long_context and synthesis for the repo summarization
\* scenario, low_latency and synchronous for the low-latency scenario).
C28_ScenarioTableMet ==
    (orch_pc = "logged" /\ test_case \in test_cases) =>
        IF test_case.expected_model /= None
        THEN selected_model = test_case.expected_model
        ELSE test_case.expected_features
                 \subseteq get_model_features(selected_model)

\* the scenarios of the table that name a model get that model
C28_NamedModelsMet ==
    ( /\ orch_pc = "logged"
      /\ test_case \in test_cases
      /\ test_case.expected_model /= None ) =>
        selected_model = test_case.expected_model


----------------------------------------------------------------------------
(* Properties of refactor.py (SpecRefactor).                               *)

\* place of a git step in the order branch, add, commit, push, create PR
step_rank(cmd) ==
    CASE cmd \in { "rev-parse", "branch --list" } -> 0
      [] cmd \in { "checkout", "checkout -b" }    -> 1
      [] cmd = "add"                              -> 2
      [] cmd \in { "commit", "status" }           -> 3
      [] cmd = "push"                             -> 4
      [] cmd \in { "gh --version", "pr create" }  -> 5

\* the steps run in the order branch, add, commit, push, create PR
steps_in_order ==
    \A i, j \in DOMAIN commands :
        i < j => step_rank(commands[i].cmd) <= step_rank(commands[j].cmd)

\* no push or PR creation is attempted after the repository test, the
\* branch, the add or the commit step has failed
no_push_after_failure ==
    \A i, j \in DOMAIN commands :
        ( /\ i < j
          /\ commands[i].result /= "ok"
          /\ commands[i].cmd \in
                { "rev-parse", "checkout", "checkout -b", "add", "commit" } )
        => commands[j].cmd \notin { "push", "gh --version", "pr create" }

executed_ok(cmd) ==
    \E i \in DOMAIN commands :
        commands[i].cmd = cmd /\ commands[i].result = "ok"

says(msg) == \E i \in DOMAIN printed : printed[i] = msg

\* the completion summary is printed only when the push and the PR creation
\* were executed successfully
summary_is_true ==
    ( \/ says("Git branch created and pushed")
      \/ says("Pull request ready for review") ) =>
        (executed_ok("push") /\ executed_ok("pr create"))

\* C30: in refactor.py the git steps run in the order branch, add, commit,
\* push, create PR; no push or PR creation is attempted after the branch,
\* add or commit step has failed or when the directory is not a git
\* repository; main prints the completion summary only in runs in which the
\* push and the PR creation were executed successfully.
C30_GitWorkflow ==
    /\ steps_in_order
    /\ no_push_after_failure
    /\ summary_is_true

\* the part of C30 about the order of the steps
C30_StepsInOrder == steps_in_order

\* the part of C30 about the summary, alone
C30_SummaryIsTrue == summary_is_true

\* the part of C30 about failures, with a commit that fails because there
\* is nothing to commit not counted as a failed step
C30_NoPushAfterFailure ==
    \A i, j \in DOMAIN commands :
        ( /\ i < j
          /\ commands[i].result /= "ok"
          /\ commands[i].cmd \in
                { "rev-parse", "checkout", "checkout -b", "add", "commit" }
          /\ ~( commands[i].cmd = "commit" /\ says("No changes to commit") ) )
        => commands[j].cmd \notin { "push", "gh --version", "pr create" }

====
